---- MODULE Spec2Model ----
(***************************************************************************)
(* A model of TagLib's FileStream (taglib/toolkit/tfilestream.cpp): the    *)
(* stream over one file handle and the two splice algorithms, insert and   *)
(* removeBlock, built on it.  The file is a sequence of bytes, the handle  *)
(* a mode with a position, and each public member is an action; the two    *)
(* splice loops advance one iteration per step.                            *)
(***************************************************************************)
EXTENDS Integers, Sequences, FiniteSets, TLC

\* Longest file, in bytes, that the model lets exist.
MaxFileLen == 4

\* Longest data argument of insert and writeBlock, and largest replace/length.
MaxData == 3

\* The byte values of file contents and data.
Byte == {0, 1}

\* Largest base chunk size a build is modelled with: the source's 1024 and
\* 8192 bytes are scaled down to 1..MaxChunk bytes, files and data with them.
MaxChunk == 2

ChunkSizes == 1..MaxChunk

VARIABLES
  win32,            \* the build: TRUE for the _WIN32 branch, FALSE for the stdio branch
  BufferSize,       \* the base chunk size of the build
  file,             \* d->file: "invalid", or the mode the handle was opened in
  readOnly,         \* d->readOnly
  disk,             \* the bytes of the file
  pos,              \* the handle's file position
  latch,            \* the stdio end-of-file/error indicator of the handle
  pc,               \* where the program is: "new", "idle" (between calls), inside a
                    \* splice loop, "done" (a call has just returned), "closed", "crashed"
  op,               \* the public member called last (or running)
  args,             \* its arguments
  orig,             \* the file when it was called
  origPos,          \* the position when it was called
  ret,              \* what it returned
  io,               \* which file primitives it has issued so far
  rt,               \* the file before the insert that the running removeBlock undoes
  bufferLength,     \* insert: the working-buffer length
  readPosition,     \* insert/removeBlock local
  writePosition,    \* insert/removeBlock local
  buffer,           \* insert: the pending buffer; removeBlock: the buffer
  aboutToOverwrite  \* insert local

vars == <<win32, BufferSize, file, readOnly, disk, pos, latch,
          pc, op, args, orig, origPos, ret, io, rt,
          bufferLength, readPosition, writePosition, buffer, aboutToOverwrite>>

config == <<win32, BufferSize>>
locals == <<bufferLength, readPosition, writePosition, buffer, aboutToOverwrite>>

----------------------------------------------------------------------------
\* Helpers on numbers and byte sequences.

Min(a, b) == IF a < b THEN a ELSE b
Max(a, b) == IF a > b THEN a ELSE b

Zeros(n) == [i \in 1..n |-> 0]

\* d, zero-filled up to length n when it is shorter.
Pad(d, n) == IF n > Len(d) THEN d \o Zeros(n - Len(d)) ELSE d

\* d cut or zero-extended to length n.
Resize(d, n) == IF n <= Len(d) THEN SubSeq(d, 1, n) ELSE Pad(d, n)

\* All byte sequences of length at most n: the files.
BytesUpTo(n) == UNION {[1..k -> Byte] : k \in 0..n}

\* The data arguments tried: one byte pattern of every length up to MaxData.
DataOf(k) == [i \in 1..k |-> (i + k) % 2]
DataSet == {DataOf(k) : k \in 0..MaxData}

InvalidFileHandle == "invalid"

NoIo == [write |-> FALSE, truncate |-> FALSE, invalid |-> FALSE]
\* The arguments of a call: data; start or offset; replace or length; the seek
\* origin; and, of the constructor, openReadOnly and what the file system grants
\* on the path ("none", "r" or "rw").
NoArgs == [data |-> <<>>, start |-> 0, n |-> 0, p |-> "Beginning",
           openReadOnly |-> FALSE, access |-> "none"]
NoRet == [bytes |-> <<>>, num |-> 0]
NoRt == [stage |-> "off", disk |-> <<>>, start |-> 0, size |-> 0]

\* The handle's state as one value, so that members compose as functions.
Cur == [disk |-> disk, pos |-> pos, latch |-> latch, io |-> io]
Fresh == [Cur EXCEPT !.io = NoIo]

----------------------------------------------------------------------------
\* The file primitives of the anonymous namespace.

\* openFile(path, readOnly): the mode of the handle obtained, or InvalidFileHandle,
\* where the file system grants `access` on the path.
openFile(access, ro) ==
  IF ro THEN (IF access \in {"r", "rw"} THEN "r" ELSE InvalidFileHandle)
        ELSE (IF access = "rw" THEN "rw" ELSE InvalidFileHandle)

\* How many bytes a read into buf gets at the position when the primitive
\* reads all it can: the buffer's size, or what is left before the end of file.
readCount(s, buf) ==
  IF file = InvalidFileHandle THEN 0
  ELSE Min(Len(buf), Max(0, Len(s.disk) - s.pos))

\* A read into buf that gets c bytes: they come to the front of buf, the
\* position moves past them, and stdio flags the stream when the read is short.
readFileCount(s, buf, c) ==
  LET k == Len(buf)
  IN  [st |-> [s EXCEPT !.pos = @ + c,
                        !.latch = IF ~win32 /\ c < k THEN TRUE ELSE @,
                        !.io.invalid = @ \/ file = InvalidFileHandle],
       count |-> c,
       buffer |-> SubSeq(s.disk, s.pos + 1, s.pos + c) \o SubSeq(buf, c + 1, k)]

\* readFile(file, buffer): reads up to buffer.size() bytes at the position into
\* the front of buffer; count is the number of bytes read.
readFile(s, buf) == readFileCount(s, buf, readCount(s, buf))

\* writeFile(file, buffer): writes buffer at the position, zero-filling a gap
\* past the end; a handle opened for reading writes nothing.
writeFile(s, buf) ==
  LET issued == [s EXCEPT !.io.write = TRUE] IN
  IF file = InvalidFileHandle THEN [issued EXCEPT !.io.invalid = TRUE]
  ELSE IF Len(buf) = 0 THEN issued
  ELSE IF file = "r" THEN [issued EXCEPT !.latch = ~win32]
  ELSE LET base == Pad(s.disk, s.pos)
       IN  [issued EXCEPT
              !.disk = SubSeq(base, 1, s.pos) \o buf
                       \o SubSeq(base, s.pos + Len(buf) + 1, Len(base)),
              !.pos = @ + Len(buf)]

----------------------------------------------------------------------------
\* The members that do not loop, as functions of the handle's state.

isOpen == file # InvalidFileHandle

Positions == {"Beginning", "Current", "End"}

seek(s, offset, p) ==
  IF ~isOpen THEN s
  ELSE IF p \notin Positions THEN s
  ELSE LET base == CASE p = "Beginning" -> 0
                     [] p = "Current" -> s.pos
                     [] p = "End" -> Len(s.disk)
           t == base + offset
       IN  IF win32 THEN [s EXCEPT !.pos = IF t < 0 THEN 0 ELSE t]
           ELSE IF t < 0 THEN s
           ELSE [s EXCEPT !.pos = t, !.latch = FALSE]

clear(s) ==
  IF win32 THEN s
  ELSE [s EXCEPT !.latch = FALSE, !.io.invalid = @ \/ file = InvalidFileHandle]

\* tell() hands the handle to the primitive without looking at it.
tellState(s) == [s EXCEPT !.io.invalid = @ \/ file = InvalidFileHandle]
tellValue(s) == IF file = InvalidFileHandle THEN 0 ELSE s.pos

\* length() that does not seek back.
lengthStateAtEnd(s) == IF ~isOpen THEN s ELSE seek(tellState(s), 0, "End")

lengthState(s) ==
  IF ~isOpen THEN s
  ELSE IF win32 THEN s
  ELSE LET currentPosition == tellValue(s)
           s1 == seek(tellState(s), 0, "End")
           s2 == tellState(s1)
       IN  seek(s2, currentPosition, "Beginning")

length(s) ==
  IF ~isOpen THEN 0
  ELSE IF win32 THEN Len(s.disk)
  ELSE tellValue(seek(tellState(s), 0, "End"))

\* The primitive under truncate: SetEndOfFile at the position / ftruncate.
setEndNothing(s, n) == [s EXCEPT !.io.truncate = TRUE]

setEnd(s, n) ==
  LET issued == [s EXCEPT !.io.truncate = TRUE] IN
  IF file = InvalidFileHandle THEN [issued EXCEPT !.io.invalid = TRUE]
  ELSE IF file = "r" \/ n < 0 THEN issued
  ELSE [issued EXCEPT !.disk = Resize(s.disk, n)]

truncate(s, len) ==
  IF win32
  THEN LET currentPos == tellValue(s)
           s1 == seek(tellState(s), len, "Beginning")
           s2 == setEnd(s1, s1.pos)
       IN  seek(s2, currentPos, "Beginning")
  ELSE setEnd(s, len)

writeBlockUnchecked(s, data) == IF ~isOpen THEN s ELSE writeFile(s, data)

writeBlock(s, data) ==
  IF ~isOpen THEN s
  ELSE IF readOnly THEN s
  ELSE writeFile(s, data)

\* insert, when nothing has to move: seek(start); writeBlock(data).
overwriteNoSeek(s, data, start) == writeBlock(s, data)
overwrite(s, data, start) == writeBlock(seek(s, start, "Beginning"), data)

\* readBlock(length): the length asked of the primitive after the clamp.
readBlockLengthAlways(s, len) == IF len > BufferSize THEN length(s) ELSE len

readBlockLength(s, len) ==
  LET streamLength == length(s)
  IN  IF len > BufferSize /\ len > streamLength THEN streamLength ELSE len

readBlock(s, len) ==
  IF ~isOpen \/ len = 0
  THEN [st |-> s, count |-> 0, buffer |-> <<>>]
  ELSE LET r == readFile(lengthState(s), Zeros(readBlockLength(s, len)))
       IN  [r EXCEPT !.buffer = SubSeq(r.buffer, 1, r.count)]

----------------------------------------------------------------------------
\* The state machine.

Put(s) ==
  /\ disk' = s.disk
  /\ pos' = s.pos
  /\ latch' = s.latch
  /\ io' = s.io

Called(name, a, p, r) ==
  /\ op' = name
  /\ args' = a
  /\ orig' = disk
  /\ origPos' = p
  /\ ret' = r

NoLocals ==
  /\ bufferLength' = 0
  /\ readPosition' = 0
  /\ writePosition' = 0
  /\ buffer' = <<>>
  /\ aboutToOverwrite' = <<>>

Init ==
  /\ win32 \in BOOLEAN
  /\ BufferSize \in ChunkSizes
  /\ disk \in BytesUpTo(MaxFileLen)
  /\ file = InvalidFileHandle
  /\ readOnly = TRUE
  /\ pos = 0
  /\ latch = FALSE
  /\ pc = "new"
  /\ op = "none"
  /\ args = NoArgs
  /\ orig = <<>>
  /\ origPos = 0
  /\ ret = NoRet
  /\ io = NoIo
  /\ rt = NoRt
  /\ bufferLength = 0
  /\ readPosition = 0
  /\ writePosition = 0
  /\ buffer = <<>>
  /\ aboutToOverwrite = <<>>

\* FileStream::FileStream(fileName, openReadOnly)
readOnlyAfterOpenAsAsked(openReadOnly, first) == openReadOnly

\* The constructor's readOnly flag, `first` being the handle after the read/write attempt.
readOnlyAfterOpen(openReadOnly, first) ==
  IF first # InvalidFileHandle THEN FALSE ELSE readOnly

FileStream(openReadOnly, access) ==
  /\ pc = "new"
  /\ LET first == IF ~openReadOnly THEN openFile(access, FALSE) ELSE file
     IN  /\ readOnly' = readOnlyAfterOpen(openReadOnly, first)
         /\ file' = IF first # InvalidFileHandle THEN first ELSE openFile(access, TRUE)
  /\ pc' = "done"
  /\ Called("FileStream",
            [NoArgs EXCEPT !.openReadOnly = openReadOnly, !.access = access], 0, NoRet)
  /\ UNCHANGED <<config, disk, pos, latch, io, rt, locals>>

\* What a call that passed the invalid handle to a stdio primitive may do next:
\* the behaviour is undefined, the call returns or the process dies.
Outcomes(s) == IF s.io.invalid /\ ~win32 THEN {"done", "crashed"} ELSE {"done"}

\* FileStream::~FileStream()
Destroy ==
  /\ pc = "idle"
  /\ pc' = "closed"
  /\ Called("~FileStream", NoArgs, 0, NoRet)
  /\ rt' = NoRt
  /\ UNCHANGED <<config, file, readOnly, disk, pos, latch, io, locals>>

\* FileStream::readBlock(length)
ReadBlock(len) ==
  /\ pc = "idle"
  /\ LET r == readBlock(Fresh, len)
     IN  /\ Put(r.st)
         /\ Called("readBlock", [NoArgs EXCEPT !.n = len], pos,
                   [NoRet EXCEPT !.bytes = r.buffer])
  /\ pc' = "done"
  /\ rt' = NoRt
  /\ UNCHANGED <<config, file, readOnly, locals>>

\* FileStream::writeBlock(data)
WriteBlock(data) ==
  /\ pc = "idle"
  /\ LET s == writeBlock(Fresh, data)
     IN  /\ Len(s.disk) <= MaxFileLen
         /\ Put(s)
  /\ Called("writeBlock", [NoArgs EXCEPT !.data = data], pos, NoRet)
  /\ pc' = "done"
  /\ rt' = NoRt
  /\ UNCHANGED <<config, file, readOnly, locals>>

\* FileStream::seek(offset, p)
Seek(offset, p) ==
  /\ pc = "idle"
  /\ LET s == seek(Fresh, offset, p)
     IN  /\ s.pos <= MaxFileLen + 1
         /\ Put(s)
  /\ Called("seek", [NoArgs EXCEPT !.start = offset, !.p = p], pos, NoRet)
  /\ pc' = "done"
  /\ rt' = NoRt
  /\ UNCHANGED <<config, file, readOnly, locals>>

\* FileStream::clear()
Clear ==
  /\ pc = "idle"
  /\ LET s == clear(Fresh)
     IN  /\ Put(s)
         /\ pc' \in Outcomes(s)
  /\ Called("clear", NoArgs, pos, NoRet)
  /\ rt' = NoRt
  /\ UNCHANGED <<config, file, readOnly, locals>>

\* FileStream::tell()
Tell ==
  /\ pc = "idle"
  /\ LET s == tellState(Fresh)
     IN  /\ Put(s)
         /\ pc' \in Outcomes(s)
         /\ \E v \in (IF s.io.invalid /\ ~win32 THEN {-1, 0} ELSE {tellValue(Fresh)}) :
              Called("tell", NoArgs, pos, [NoRet EXCEPT !.num = v])
  /\ rt' = NoRt
  /\ UNCHANGED <<config, file, readOnly, locals>>

\* FileStream::length()
Length ==
  /\ pc = "idle"
  /\ Put(lengthState(Fresh))
  /\ Called("length", NoArgs, pos, [NoRet EXCEPT !.num = length(Fresh)])
  /\ pc' = "done"
  /\ rt' = NoRt
  /\ UNCHANGED <<config, file, readOnly, locals>>

\* FileStream::truncate(length)
Truncate(len) ==
  /\ pc = "idle"
  /\ LET s == truncate(Fresh, len)
     IN  /\ Put(s)
         /\ pc' \in Outcomes(s)
  /\ Called("truncate", [NoArgs EXCEPT !.n = len], pos, NoRet)
  /\ rt' = NoRt
  /\ UNCHANGED <<config, file, readOnly, locals>>

\* insert: the working-buffer length for data of size n replacing `replace` bytes.
\* An `if` in place of the `while`: one more chunk at most.
growBufferLengthOnce(delta, len) == IF delta > len THEN len + BufferSize ELSE len

RECURSIVE growBufferLength(_, _)
growBufferLength(delta, len) ==
  IF delta > len THEN growBufferLength(delta, len + BufferSize) ELSE len

insertBufferLengthFixed(size, replace) == BufferSize

insertBufferLength(size, replace) == growBufferLength(size - replace, BufferSize)

\* insert: where reading starts.
insertReadStartAtStart(start, replace) == start

insertReadStart(start, replace) == start + replace

\* removeBlock: where reading starts.
removeReadStartAtStart(start, len) == start

removeReadStart(start, len) == start + len

\* removeBlock: where writing starts.
removeWriteStartBefore(start, len) == Max(0, start - 1)

removeWriteStart(start, len) == start

\* removeBlock's loop set up by a call removeBlock(start, length).
EnterRemove(s, start, len) ==
  /\ Put(s)
  /\ pc' = "removeLoop"
  /\ bufferLength' = BufferSize
  /\ readPosition' = removeReadStart(start, len)
  /\ writePosition' = removeWriteStart(start, len)
  /\ buffer' = Zeros(BufferSize)
  /\ aboutToOverwrite' = <<>>

\* How long the file is once insert(data, start, replace) or
\* removeBlock(start + Len(data), replace - Len(data)) has run on a writable stream.
LengthAfter(data, start, replace) ==
  start + Len(data) + Max(0, Len(disk) - start - replace)

\* FileStream::insert(data, start, replace), up to its loop
Insert(data, start, replace) ==
  /\ pc = "idle"
  /\ isOpen /\ ~readOnly => LengthAfter(data, start, replace) <= MaxFileLen
  /\ Called("insert", [NoArgs EXCEPT !.data = data, !.start = start, !.n = replace],
            0, NoRet)
  /\ rt' = NoRt
  /\ IF ~isOpen \/ readOnly
       THEN Put(Fresh) /\ pc' = "done" /\ NoLocals
     ELSE IF Len(data) = replace
       THEN Put(overwrite(Fresh, data, start))
            /\ pc' = "done" /\ NoLocals
     ELSE IF Len(data) < replace
       THEN EnterRemove(overwrite(Fresh, data, start),
                        start + Len(data), replace - Len(data))
     ELSE /\ Put(Fresh)
          /\ pc' = "insertLoop"
          /\ bufferLength' = insertBufferLength(Len(data), replace)
          /\ readPosition' = insertReadStart(start, replace)
          /\ writePosition' = start
          /\ buffer' = data
          /\ aboutToOverwrite' = Zeros(insertBufferLength(Len(data), replace))
  /\ UNCHANGED <<config, file, readOnly>>

\* A loop whose read position stands still.
insertStrideNone(count) == 0

\* insert: by how much the read position advances after a read of `count` bytes.
insertStride(count) == bufferLength

\* One iteration of insert's loop, r being what its read gave.
InsertIteration(r) ==
  LET bytesRead == r.count
      read == SubSeq(r.buffer, 1, bytesRead)
      s2 == IF bytesRead < bufferLength THEN clear(r.st) ELSE r.st
      s4 == writeBlock(seek(s2, writePosition, "Beginning"), buffer)
  IN  /\ Put(s4)
      /\ IF bytesRead = 0
           THEN pc' = "done" /\ NoLocals
           ELSE /\ pc' = "insertLoop"
                /\ readPosition' = readPosition + insertStride(bytesRead)
                /\ writePosition' = writePosition + Len(buffer)
                /\ buffer' = read
                /\ aboutToOverwrite' = read
                /\ UNCHANGED bufferLength
      /\ UNCHANGED <<config, file, readOnly, op, args, orig, origPos, ret, rt>>

\* One iteration of insert's loop.
InsertStep ==
  /\ pc = "insertLoop"
  /\ InsertIteration(readFile(seek(Cur, readPosition, "Beginning"), aboutToOverwrite))

\* One iteration of insert's loop whose read is partial: it gets some bytes,
\* fewer than the buffer asks for and than the file has left.
InsertStepPartial ==
  /\ pc = "insertLoop"
  /\ LET s == seek(Cur, readPosition, "Beginning")
     IN  \E c \in 1..(readCount(s, aboutToOverwrite) - 1) :
           InsertIteration(readFileCount(s, aboutToOverwrite, c))

\* FileStream::removeBlock(start, length), up to its loop
RemoveBlock(start, len) ==
  /\ pc = "idle"
  /\ Called("removeBlock", [NoArgs EXCEPT !.start = start, !.n = len], 0, NoRet)
  /\ rt' = IF rt.stage = "inserted" /\ rt.start = start /\ rt.size = len
             THEN [rt EXCEPT !.stage = "removing"]
             ELSE NoRt
  /\ IF ~isOpen
       THEN Put(Fresh) /\ pc' = "done" /\ NoLocals
       ELSE EnterRemove(Fresh, start, len)
  /\ UNCHANGED <<config, file, readOnly>>

\* removeBlock: by how much the write position advances after a read of `count` bytes.
removeStrideFull(count) == BufferSize

removeStride(count) == count

\* One iteration of removeBlock's loop.
RemoveStep ==
  /\ pc = "removeLoop"
  /\ LET r == readFile(seek(Cur, readPosition, "Beginning"), buffer)
         bytesRead == r.count
         short == bytesRead < Len(buffer)
         s2 == IF short THEN clear(r.st) ELSE r.st
         buf == IF short THEN SubSeq(r.buffer, 1, bytesRead) ELSE r.buffer
         s4 == writeFile(seek(s2, writePosition, "Beginning"), buf)
     IN  /\ Put(s4)
         /\ readPosition' = readPosition + bytesRead
         /\ writePosition' = writePosition + removeStride(bytesRead)
         /\ buffer' = buf
         /\ pc' = IF bytesRead = 0 THEN "removeTruncate" ELSE "removeLoop"
  /\ UNCHANGED <<config, file, readOnly, op, args, orig, origPos, ret, rt,
                 bufferLength, aboutToOverwrite>>

\* removeBlock: the truncate after its loop.
RemoveTruncate ==
  /\ pc = "removeTruncate"
  /\ Put(truncate(Cur, writePosition))
  /\ pc' = "done"
  /\ NoLocals
  /\ UNCHANGED <<config, file, readOnly, op, args, orig, origPos, ret, rt>>

\* The call returns to its caller, and what was recorded about it is dropped;
\* after insert(data, start, 0) on a writable stream the file it found is kept,
\* for the removeBlock(start, data.size()) that may undo it.
Return ==
  /\ pc = "done"
  /\ pc' = "idle"
  /\ op' = "none"
  /\ args' = NoArgs
  /\ orig' = <<>>
  /\ origPos' = 0
  /\ ret' = NoRet
  /\ io' = NoIo
  /\ rt' = IF op = "insert" /\ args.n = 0 /\ file = "rw" /\ ~readOnly
             THEN [stage |-> "inserted", disk |-> orig,
                   start |-> args.start, size |-> Len(args.data)]
             ELSE NoRt
  /\ UNCHANGED <<config, file, readOnly, disk, pos, latch, locals>>

Next ==
  \/ \E openReadOnly \in BOOLEAN, access \in {"none", "r", "rw"} :
       FileStream(openReadOnly, access)
  \/ Return
  \/ Destroy
  \/ \E len \in 0..(MaxData + 1) : ReadBlock(len)
  \/ \E data \in DataSet : WriteBlock(data)
  \/ \E offset \in (-1)..(MaxFileLen + 1), p \in Positions \cup {"Invalid"} : Seek(offset, p)
  \/ Clear
  \/ Tell
  \/ Length
  \/ \E len \in 0..MaxFileLen : Truncate(len)
  \/ \E data \in DataSet, start \in 0..Len(disk), replace \in 0..MaxData :
       Insert(data, start, replace)
  \/ InsertStep
  \/ \E start \in 0..MaxFileLen, len \in 0..MaxData : RemoveBlock(start, len)
  \/ RemoveStep
  \/ RemoveTruncate

Spec == Init /\ [][Next]_vars

\* The program on a system whose reads may be partial.
PartialNext == Next \/ InsertStepPartial

PartialSpec == Init /\ [][PartialNext]_vars

\* The program whose caller only inserts, and which keeps running its insert
\* loop once it is in it: the loop has no suspension point but its blocking
\* reads and writes.  insert seeks before every read and write, so the other
\* members, which leave the file as it is or as some insert leaves it, bring
\* nothing to it.
InsertNext ==
  \/ \E openReadOnly \in BOOLEAN, access \in {"none", "r", "rw"} :
       FileStream(openReadOnly, access)
  \/ Return
  \/ \E data \in DataSet, start \in 0..Len(disk), replace \in 0..MaxData :
       Insert(data, start, replace)
  \/ InsertStep
  \/ RemoveStep
  \/ RemoveTruncate

FairSpec == Init /\ [][InsertNext]_vars /\ WF_vars(InsertStep)

----------------------------------------------------------------------------
\* The properties checked.

\* The call `name` has just returned.
Done(name) == pc = "done" /\ op = name

\* The stream is open and writable.
Writable == isOpen /\ ~readOnly

\* F with the `replace` bytes at `start` replaced by data.
Spliced(F, data, start, replace) ==
  SubSeq(F, 1, start) \o data \o SubSeq(F, start + replace + 1, Len(F))

\* C1: a growing insert (replace < data.size(), start + replace <= n) on a
\* writable stream leaves F[0,start) ++ data ++ F[start+replace,n), of length
\* n + (data.size() - replace), whatever the length of the tail.
GrowingInsertCorrect ==
  (/\ Done("insert")
   /\ Writable
   /\ args.n < Len(args.data)
   /\ args.start + args.n <= Len(orig))
  => /\ disk = Spliced(orig, args.data, args.start, args.n)
     /\ Len(disk) = Len(orig) + (Len(args.data) - args.n)

\* C1 happens: a growing insert has returned whose tail spans at least two
\* working buffers, behind a prefix that is not empty.
GrowingInsertWitness ==
  /\ Done("insert")
  /\ Writable
  /\ args.n < Len(args.data)
  /\ args.start > 0
  /\ Len(orig) - (args.start + args.n) >= 2 * insertBufferLength(Len(args.data), args.n)
  /\ disk = Spliced(orig, args.data, args.start, args.n)

\* C2: removeBlock(start, length) with start + length <= n on a writable stream
\* leaves F[0,start) ++ F[start+length,n), and length() is n - length.
RemoveBlockCorrect ==
  (/\ Done("removeBlock")
   /\ Writable
   /\ args.start + args.n <= Len(orig))
  => /\ disk = Spliced(orig, <<>>, args.start, args.n)
     /\ SubSeq(disk, 1, args.start) = SubSeq(orig, 1, args.start)
     /\ length(Cur) = Len(orig) - args.n

\* C2 happens: a block in the middle of the file was removed, and what follows
\* it is longer than the buffer.
RemoveBlockWitness ==
  /\ Done("removeBlock")
  /\ Writable
  /\ args.start > 0
  /\ args.n > 0
  /\ Len(orig) - (args.start + args.n) > BufferSize
  /\ Len(disk) = Len(orig) - args.n

\* C3: a shrinking insert (data.size() < replace, start + replace <= n) on a
\* writable stream leaves F[0,start) ++ data ++ F[start+replace,n), of length
\* n - (replace - data.size()).
ShrinkingInsertCorrect ==
  (/\ Done("insert")
   /\ Writable
   /\ Len(args.data) < args.n
   /\ args.start + args.n <= Len(orig))
  => /\ disk = Spliced(orig, args.data, args.start, args.n)
     /\ Len(disk) = Len(orig) - (args.n - Len(args.data))

\* C3 happens: a shrinking insert of data that is not empty has returned, with
\* bytes of the file on both sides of the replaced range.
ShrinkingInsertWitness ==
  /\ Done("insert")
  /\ Writable
  /\ 0 < Len(args.data)
  /\ Len(args.data) < args.n
  /\ args.start > 0
  /\ args.start + args.n < Len(orig)
  /\ Len(disk) = Len(orig) - (args.n - Len(args.data))

\* The file is F but for the bytes [start, start + Len(data)), which are data.
SameBut(F, data, start) ==
  /\ Len(disk) = Len(F)
  /\ \A i \in 1..Len(disk) :
       disk[i] = IF start < i /\ i <= start + Len(data) THEN data[i - start] ELSE F[i]

\* C4, as claimed: an equal-size insert (data.size() == replace), for any start
\* and replace, changes only the bytes [start, start+replace), which become
\* data, and leaves the length of the file as it was.
EqualInsertAnyRange ==
  (/\ Done("insert")
   /\ Writable
   /\ Len(args.data) = args.n)
  => SameBut(orig, args.data, args.start)

\* C4, amended: an equal-size insert (data.size() == replace) with 0 <= start
\* and start + replace <= n changes only the bytes [start, start+replace),
\* which become data, and leaves the length of the file as it was.
EqualInsertInRange ==
  (/\ Done("insert")
   /\ Writable
   /\ Len(args.data) = args.n
   /\ 0 <= args.start
   /\ args.start + args.n <= Len(orig))
  => SameBut(orig, args.data, args.start)

\* C4 happens: an equal-size insert inside the file has changed a byte, with
\* bytes of the file on both sides of the range.
EqualInsertWitness ==
  /\ Done("insert")
  /\ Writable
  /\ Len(args.data) = args.n
  /\ args.n > 0
  /\ args.start > 0
  /\ args.start + args.n < Len(orig)
  /\ disk # orig
  /\ SameBut(orig, args.data, args.start)

\* C5: insert(data, start, 0) immediately followed by
\* removeBlock(start, data.size()), on a writable stream with start <= n,
\* restores the content and the length of the file.
RoundTrip ==
  (Done("removeBlock") /\ rt.stage = "removing") => disk = rt.disk

\* C5 happens: the round trip has run with data that is not empty, at least
\* as long as the base chunk (and longer than it, where the chunk is one
\* byte), ahead of a tail that is not empty.
RoundTripWitness ==
  /\ Done("removeBlock")
  /\ rt.stage = "removing"
  /\ rt.size >= 2
  /\ rt.size >= BufferSize
  /\ rt.start < Len(rt.disk)
  /\ disk = rt.disk

\* C6: writeBlock and insert on a stream that is read-only or not open issue
\* no write and no truncate and leave the file as it is, whatever the
\* arguments; insert does not enter removeBlock either.
WriteRejected ==
  (op \in {"writeBlock", "insert"} /\ (~isOpen \/ readOnly))
  => /\ pc = "done"
     /\ ~io.write
     /\ ~io.truncate
     /\ disk = orig

\* C6 happens: a shrinking insert has returned on an open read-only stream.
WriteRejectedWitness ==
  /\ Done("insert")
  /\ isOpen
  /\ readOnly
  /\ Len(args.data) < args.n
  /\ args.start + args.n <= Len(orig)
  /\ disk = orig

\* C7, as claimed: removeBlock on an open stream whose readOnly flag is true
\* issues no write and no truncate, and leaves the file as it is.
RemoveBlockRejectedReadOnly ==
  (op = "removeBlock" /\ isOpen /\ readOnly)
  => /\ ~io.write
     /\ ~io.truncate
     /\ disk = orig

\* C8, as claimed: on a stream whose two open attempts have failed, no member
\* hands the invalid handle to a file primitive, and every member returns
\* (an empty or zero result).
InvalidHandleSafe ==
  (pc # "new" /\ ~isOpen)
  => /\ ~io.invalid
     /\ pc # "crashed"
     /\ ret = NoRet
     /\ pc = "done" => disk = orig

\* The bytes of F from offset p on, at most n of them.
BytesAt(F, p, n) ==
  IF p >= Len(F) \/ n = 0 THEN <<>> ELSE SubSeq(F, p + 1, Min(p + n, Len(F)))

\* C9: readBlock(maxLength) on an open stream at position p of a file of
\* length n returns the bytes [p, min(p + maxLength, n)), and the position
\* advances by the number of bytes returned, so not past n by the read.
ReadBlockExact ==
  (Done("readBlock") /\ isOpen)
  => /\ ret.bytes = BytesAt(orig, origPos, args.n)
     /\ pos = origPos + Len(ret.bytes)
     /\ origPos <= Len(orig) => pos <= Len(orig)
     /\ disk = orig

\* C9 happens: a read inside the file took the clamp of an oversized request
\* and returned bytes, fewer than asked for.
ReadBlockWitness ==
  /\ Done("readBlock")
  /\ isOpen
  /\ origPos > 0
  /\ args.n > BufferSize
  /\ args.n > Len(orig)
  /\ ret.bytes # <<>>
  /\ Len(ret.bytes) < args.n
  /\ pos = Len(orig)

\* C10: the constructor leaves readOnly true exactly if the caller asked for
\* read-only or the read/write open failed, so that a stream that is not
\* read-only holds a handle opened for writing; and no later step before
\* destruction changes the flag or the handle.
OpenStateInvariant ==
  [][/\ pc = "new" =>
          /\ readOnly' = (args'.openReadOnly \/ args'.access # "rw")
          /\ ~readOnly' => file' = "rw"
     /\ (pc # "new" /\ pc' # "closed") =>
          /\ readOnly' = readOnly
          /\ file' = file]_vars

\* C10 happens: the read/write open failed, the constructor fell back to a
\* read-only open, and the stream was used afterwards.
OpenStateWitness ==
  /\ pc = "done"
  /\ op = "writeBlock"
  /\ file = "r"
  /\ readOnly

\* The absolute offset a call seek(offset, p) asks for, from the state at the call.
SeekTarget ==
  args.start + (CASE args.p = "Beginning" -> 0
                  [] args.p = "Current" -> origPos
                  [] args.p = "End" -> Len(orig)
                  [] OTHER -> 0)

\* C11, as claimed: on either backend, a seek on an open stream whose
\* resulting absolute offset would be negative leaves the position at 0.
SeekNegativeClamped ==
  (Done("seek") /\ isOpen /\ args.p \in Positions /\ SeekTarget < 0)
  => pos = 0

\* The smallest multiple of BufferSize strictly greater than delta.
NextMultipleAbove(delta) == ((delta \div BufferSize) + 1) * BufferSize

\* C12, as claimed: in the growing insert the working-buffer length is the
\* smallest multiple of the base chunk size strictly greater than the growth
\* delta data.size() - replace, exact multiples of the chunk size included.
BufferLengthStrictlyAbove ==
  (pc = "insertLoop")
  => bufferLength = NextMultipleAbove(Len(args.data) - args.n)

\* C13: at every state of the growing insert's loop, the write of the
\* iteration to come, [writePosition, writePosition + pending.size()), ends at
\* or before the read position as advanced in that iteration, so it covers no
\* byte not yet read: the bytes from readPosition on are still the original
\* ones, the pending buffer holds the data (first) or the chunk read last, and
\* the file up to writePosition is already as it will be.
NoOverwrite ==
  (pc = "insertLoop")
  => /\ writePosition + Len(buffer) <= readPosition + bufferLength
     /\ \A i \in (readPosition + 1)..Len(orig) : disk[i] = orig[i]
     /\ buffer = IF readPosition = args.start + args.n
                   THEN args.data
                   ELSE BytesAt(orig, readPosition - bufferLength, bufferLength)
     /\ SubSeq(disk, 1, writePosition)
          = SubSeq(Spliced(orig, args.data, args.start, args.n), 1, writePosition)

\* C13 happens: the loop has written the data and a chunk, holds a full
\* chunk pending, and original bytes are still unread.
NoOverwriteWitness ==
  /\ pc = "insertLoop"
  /\ writePosition > args.start + Len(args.data)
  /\ Len(buffer) = bufferLength
  /\ readPosition < Len(orig)

\* C14: the growing insert's loop ends: from every state of the loop the call
\* returns.  What makes it end: the read position is never behind the write
\* position (the loop never reads what it wrote), and after a short read that
\* was not empty the file ends at or before the read position, so that the
\* next read returns nothing.
InsertTerminates ==
  /\ (pc = "insertLoop") ~> (pc = "done" /\ op = "insert")
  /\ [](pc = "insertLoop" =>
          /\ writePosition <= readPosition
          /\ readPosition < Len(disk) => readPosition < Len(orig)
          /\ Len(aboutToOverwrite) < bufferLength => Len(disk) <= readPosition)

\* C14 happens: the loop is past a short read that was not empty, with its
\* writes having made the file longer than it was.
InsertTerminatesWitness ==
  /\ pc = "insertLoop"
  /\ 0 < Len(aboutToOverwrite)
  /\ Len(aboutToOverwrite) < bufferLength
  /\ Len(disk) > Len(orig)

\* The bytes of F from offset p on.
Rest(F, p) == BytesAt(F, p, Len(F))

\* What the call of the record leaves in the file, said without the chunk
\* size: the file as it was on a stream that is not writable; else the prefix
\* before start (zero-filled up to start, when removeBlock starts past the
\* end), the data of an insert, and the bytes that followed the range.
ChunkFreeResult ==
  IF ~Writable THEN orig
  ELSE IF op = "insert"
    THEN SubSeq(orig, 1, args.start) \o args.data \o Rest(orig, args.start + args.n)
  ELSE Pad(SubSeq(orig, 1, Min(args.start, Len(orig))), args.start)
         \o Rest(orig, args.start + args.n)

\* C15: whatever the base chunk size, insert(data, start, replace) and
\* removeBlock(start, length) leave the same content, of the same length, in
\* the same initial file: the one ChunkFreeResult gives, in which the chunk
\* size does not occur.
ChunkSizeIndependent ==
  (Done("insert") \/ Done("removeBlock"))
  => /\ disk = ChunkFreeResult
     /\ length(Cur) = IF isOpen THEN Len(ChunkFreeResult) ELSE 0

\* C15 happens: a growing insert has returned on a build whose chunk is not
\* the smallest, with a tail that took a full chunk and a short one.
ChunkSizeIndependentWitness ==
  /\ Done("insert")
  /\ Writable
  /\ BufferSize > 1
  /\ args.n < Len(args.data)
  /\ Len(orig) - (args.start + args.n) > BufferSize
  /\ (Len(orig) - (args.start + args.n)) % BufferSize # 0
  /\ disk # orig

\* C16, as claimed: where reads may be partial, a growing insert on a writable
\* stream whose range lies inside the file still leaves
\* F[0,start) ++ data ++ F[start+replace,n).
PartialReadInsertCorrect ==
  (/\ Done("insert")
   /\ Writable
   /\ Len(args.data) > args.n
   /\ args.start + args.n <= Len(orig))
  => disk = SubSeq(orig, 1, args.start) \o args.data \o Rest(orig, args.start + args.n)

\* C17: length() on an open stream returns the size of the file and leaves the
\* position, and the file, as they were, wherever the position was; on a
\* closed stream it returns 0.  So readBlock, which calls it, returns the bytes
\* at the position it was called at and moves the position past them.
LengthKeepsPosition ==
  /\ Done("length")
       => IF isOpen
            THEN ret.num = Len(orig) /\ pos = origPos /\ disk = orig
            ELSE ret.num = 0
  /\ (Done("readBlock") /\ isOpen /\ args.n > 0)
       => /\ ret.bytes = Rest(SubSeq(orig, 1, Min(Len(orig), origPos + args.n)), origPos)
          /\ pos = origPos + Len(ret.bytes)

\* C17 happens: length() has returned on a stdio stream, which finds the size
\* by seeking to the end, and the position was beyond the end of a file that
\* is not empty.
LengthKeepsPositionWitness ==
  /\ Done("length")
  /\ isOpen
  /\ ~win32
  /\ Len(orig) > 0
  /\ origPos > Len(orig)
  /\ ret.num = Len(orig)

\* A call of insert or removeBlock is running or has just returned.
InEdit == op \in {"insert", "removeBlock"} /\ pc # "idle"

\* C18: in every state of a call insert(data, start, replace) or
\* removeBlock(start, length), the states between the iterations of the loops
\* and before the truncate included, the bytes of the file before start are the
\* original ones, the coming write is at or after start, and the truncate
\* is to a length that is at least start.
PrefixPreserved ==
  InEdit
  => /\ \A i \in 1..Min(args.start, Len(orig)) : i <= Len(disk) /\ disk[i] = orig[i]
     /\ pc \in {"insertLoop", "removeLoop", "removeTruncate"}
          => writePosition >= args.start

\* C18 happens: removeBlock is between two iterations of its loop, has written
\* already, and removes behind a prefix that is not empty.
PrefixPreservedWitness ==
  /\ op = "removeBlock"
  /\ pc = "removeLoop"
  /\ Writable
  /\ args.start > 0
  /\ args.n > 0
  /\ writePosition > args.start
  /\ disk # orig

\* C19, as claimed: removeBlock(start, length) on a writable stream never
\* leaves the file longer than it was, and removeBlock(start, 0) leaves it as
\* it was.
RemoveBlockNeverGrows ==
  (Done("removeBlock") /\ Writable)
  => /\ Len(disk) <= Len(orig)
     /\ args.n = 0 => disk = orig

================================================================================
